---- MODULE Spec2Model ----
(***************************************************************************)
(* Model of diimpy: the Perturbation source (perturbation.py) and the      *)
(* construction and simulation operations of DIIM (diim.py).               *)
(*                                                                         *)
(* Numbers are exact rationals <<numerator, denominator>> in lowest terms  *)
(* with a positive denominator; floating-point roundoff is not modelled.   *)
(* Python's 0-based sector indices are 1-based here.                       *)
(***************************************************************************)
EXTENDS Integers, Sequences, FiniteSets, TLC

(***************************************************************************)
(* Bounds                                                                  *)
(***************************************************************************)
MaxTime == 2
MaxSteps == 3

(***************************************************************************)
(* Rational arithmetic                                                     *)
(***************************************************************************)
RECURSIVE GCD(_, _)
GCD(a, b) == IF b = 0 THEN a ELSE GCD(b, a % b)

Abs(n) == IF n < 0 THEN -n ELSE n

R(n, d) ==
    LET s == IF d < 0 THEN -1 ELSE 1
        g == GCD(Abs(n), Abs(d))
    IN  IF n = 0 THEN <<0, 1>> ELSE <<(s * n) \div g, (s * d) \div g>>

Zero == <<0, 1>>
One == <<1, 1>>

RNeg(x) == <<-x[1], x[2]>>
RAdd(x, y) ==
    LET g == GCD(x[2], y[2])
    IN  R(x[1] * (y[2] \div g) + y[1] * (x[2] \div g), (x[2] \div g) * y[2])
RSub(x, y) == RAdd(x, RNeg(y))
RMul(x, y) ==
    LET a == R(x[1], y[2])
        b == R(y[1], x[2])
    IN  <<a[1] * b[1], a[2] * b[2]>>
RDiv(x, y) == RMul(x, R(y[2], y[1]))
RLt(x, y) == x[1] * y[2] < y[1] * x[2]
RLe(x, y) == x[1] * y[2] <= y[1] * x[2]
RGt(x, y) == RLt(y, x)
RGe(x, y) == RLe(y, x)
RAbs(x) == <<Abs(x[1]), x[2]>>

(***************************************************************************)
(* Vectors and matrices (numpy arrays of floats)                           *)
(***************************************************************************)
RECURSIVE RSum(_)
RSum(s) == IF s = <<>> THEN Zero ELSE RAdd(s[1], RSum(Tail(s)))

\* a function on 1..n as the tuple of its values, each worked out once
Tup(f) == f \o <<>>

Zeros(n) == Tup([i \in 1..n |-> Zero])
Identity(n) ==
    Tup([i \in 1..n |-> Tup([j \in 1..n |-> IF i = j THEN One ELSE Zero])])

Dot(u, v) == RSum([j \in 1..Len(u) |-> RMul(u[j], v[j])])
MatVec(M, v) == Tup([i \in 1..Len(M) |-> Dot(M[i], v)])
VecAdd(u, v) == Tup([i \in 1..Len(u) |-> RAdd(u[i], v[i])])
VecSub(u, v) == Tup([i \in 1..Len(u) |-> RSub(u[i], v[i])])
MatSub(A, B) == Tup([i \in 1..Len(A) |-> VecSub(A[i], B[i])])
Hadamard(A, B) ==
    Tup([i \in 1..Len(A) |-> Tup([j \in 1..Len(A[i]) |-> RMul(A[i][j], B[i][j])])])

\* the sequence s without its k-th element
Drop(s, k) == [i \in 1..(Len(s) - 1) |-> IF i < k THEN s[i] ELSE s[i + 1]]
Minor(M, r, c) == [i \in 1..(Len(M) - 1) |-> Drop(Drop(M, r)[i], c)]

RECURSIVE Det(_)
Det(M) ==
    IF Len(M) = 1 THEN M[1][1]
    ELSE RSum([j \in 1..Len(M) |->
             RMul(IF j % 2 = 1 THEN M[1][j] ELSE RNeg(M[1][j]),
                  Det(Minor(M, 1, j)))])

Singular(M) == Det(M) = Zero

\* the cofactors over the determinant, not transposed
InverseUntransposed(M) ==
    LET n == Len(M)
        d == Det(M)
        cof(i, j) == IF n = 1 THEN One
                     ELSE IF (i + j) % 2 = 0 THEN Det(Minor(M, i, j))
                     ELSE RNeg(Det(Minor(M, i, j)))
    IN  Tup([i \in 1..n |-> Tup([j \in 1..n |-> RDiv(cof(i, j), d)])])

\* np.linalg.inv, for a non-singular matrix
Inverse(M) ==
    LET n == Len(M)
        d == Det(M)
        cof(i, j) == IF n = 1 THEN One
                     ELSE IF (i + j) % 2 = 0 THEN Det(Minor(M, i, j))
                     ELSE RNeg(Det(Minor(M, i, j)))
    IN  Tup([i \in 1..n |-> Tup([j \in 1..n |-> RDiv(cof(j, i), d)])])

(***************************************************************************)
(* Infrastructure list (DIIM._read_io_table: df.columns.tolist())          *)
(***************************************************************************)
infra == <<"Sector1", "Sector2">>
N == Len(infra)

\* list.index: position of the first occurrence, 0 when the label is absent
\* (Python raises ValueError)
Index(item) ==
    IF \E i \in 1..N : infra[i] = item
    THEN CHOOSE i \in 1..N : infra[i] = item /\ \A j \in 1..(i - 1) : infra[j] # item
    ELSE 0

\* optional arguments: None, or a supplied list
None == [some |-> FALSE, v |-> <<>>]
Some(x) == [some |-> TRUE, v |-> x]
\* Python truthiness of "if arg:" for None or a list
Truthy(opt) == opt.some /\ Len(opt.v) > 0

(***************************************************************************)
(* Perturbation (perturbation.py)                                          *)
(*   hasc0/c0       the attribute self.c0, absent until _init_perturbation *)
(*   pinfra, cvalue config["pinfra"], config["cvalue"]                     *)
(*   hasptime/ptime config["ptime"], a key that may be absent              *)
(*   pindex         self.__pindex                                          *)
(***************************************************************************)
NewPerturbation ==
    [hasc0 |-> FALSE, c0 |-> <<>>, pinfra |-> <<>>, cvalue |-> <<>>,
     hasptime |-> FALSE, ptime |-> <<>>, pindex |-> <<>>]

\* number of leading labels of pinfra that resolve before the first unknown
RECURSIVE KnownPrefix(_)
KnownPrefix(labels) ==
    IF labels = <<>> \/ Index(Head(labels)) = 0 THEN 0
    ELSE 1 + KnownPrefix(Tail(labels))

_init_perturbation(p) ==
    LET k == KnownPrefix(p.pinfra)
        raised == k < Len(p.pinfra)
        pidx == IF p.pinfra # <<>>
                THEN [i \in 1..k |-> Index(p.pinfra[i])]
                ELSE p.pindex
        p1 == [p EXCEPT !.hasc0 = TRUE, !.c0 = Zeros(N), !.pindex = pidx]
    IN  IF raised THEN [p |-> p1, err |-> TRUE]
        ELSE IF ~p.hasptime
        THEN [p |-> [p1 EXCEPT !.hasptime = TRUE,
                               !.ptime = [i \in 1..Len(p.pinfra) |-> <<0, 0>>]],
              err |-> FALSE]
        ELSE [p |-> p1, err |-> FALSE]

set_perturbation(p, pinfra, ptime, cvalue) ==
    LET p1 == [p EXCEPT !.pinfra = pinfra]
        p2 == IF Truthy(ptime)
              THEN [p1 EXCEPT !.hasptime = TRUE, !.ptime = ptime.v] ELSE p1
        p3 == IF Truthy(cvalue) THEN [p2 EXCEPT !.cvalue = cvalue.v] ELSE p2
    IN  _init_perturbation(p3)

\* Perturbation.__init__ with the optional "Perturbation" section of config
PerturbationNew(section) ==
    IF ~section.some THEN [p |-> NewPerturbation, err |-> FALSE]
    ELSE LET s == section.v
             p1 == [NewPerturbation EXCEPT !.pinfra = s.pinfra,
                                           !.cvalue = s.cvalue,
                                           !.hasptime = s.ptime.some,
                                           !.ptime = s.ptime.v]
         IN  IF Len(s.pinfra) # Len(s.cvalue) THEN [p |-> p1, err |-> TRUE]
             ELSE _init_perturbation(p1)

\* cstar's loop visiting the entries last to first
RECURSIVE cstar_loop_reversed(_, _, _)
cstar_loop_reversed(p, time, i) ==
    IF i > Len(p.ptime) THEN [p |-> p, err |-> FALSE]
    ELSE LET r == cstar_loop_reversed(p, time, i + 1)
         IN  IF r.err \/ ~(time >= p.ptime[i][1] /\ time <= p.ptime[i][2]) THEN r
             ELSE IF i > Len(p.cvalue) \/ i > Len(p.pindex)
             THEN [p |-> r.p, err |-> TRUE]
             ELSE [p |-> [r.p EXCEPT !.c0[p.pindex[i]] = p.cvalue[i]],
                   err |-> FALSE]

\* the loop of cstar from entry i on; ct is self.c0 itself (ct = self.c0
\* binds the same array), so every assignment to ct is an assignment to c0
RECURSIVE cstar_loop(_, _, _)
cstar_loop(p, time, i) ==
    IF i > Len(p.ptime) THEN [p |-> p, err |-> FALSE]
    ELSE IF time >= p.ptime[i][1] /\ time <= p.ptime[i][2]
    THEN IF i > Len(p.cvalue) \/ i > Len(p.pindex)
         THEN [p |-> p, err |-> TRUE]
         ELSE cstar_loop([p EXCEPT !.c0[p.pindex[i]] = p.cvalue[i]], time, i + 1)
    ELSE cstar_loop(p, time, i + 1)

\* Perturbation.cstar(time): the object after the call, the returned vector
cstar(p, time) ==
    IF ~p.hasc0 \/ ~p.hasptime THEN [p |-> p, ct |-> <<>>, err |-> TRUE]
    ELSE LET r == cstar_loop(p, time, 1)
         IN  [p |-> r.p, ct |-> r.p.c0, err |-> r.err]

(***************************************************************************)
(* DIIM construction (diim.py, __init__ and the _init/_calc helpers)       *)
(***************************************************************************)
KMAT_MAX == <<9999, 10000>>

\* arr[arr > hi] = top, elementwise on a vector
ClampAbove(v, hi, top) ==
    Tup([i \in 1..Len(v) |-> IF RGt(v[i], hi) THEN top ELSE v[i]])
\* arr[arr < 0.0] = 0.0
ClampBelow(v) == Tup([i \in 1..Len(v) |-> IF RLt(v[i], Zero) THEN Zero ELSE v[i]])

\* _check_stability raises: evals.max() is the eigenvalue that is largest in
\* numpy's ordering (by real part, then imaginary part), lambda_0 the
\* absolute value of its real part.  For a 2 x 2 matrix with trace tr,
\* determinant dt and discriminant dd = tr^2 - 4 dt the eigenvalues are
\* (tr +- sqrt(dd)) / 2, so lambda_0 >= 1 is decided without the root.
Unstable(M) ==
    LET tr == RAdd(M[1][1], M[2][2])
        dt == Det(M)
        dd == RSub(RMul(tr, tr), RMul(<<4, 1>>, dt))
        two == <<2, 1>>
        hi == RSub(two, tr)             \* sqrt(dd) >= 2 - tr
        lo == RSub(RNeg(two), tr)       \* sqrt(dd) <= -2 - tr
    IN  IF RLt(dd, Zero) THEN RGe(RAbs(tr), two)
        ELSE \/ RLe(hi, Zero) \/ RGe(dd, RMul(hi, hi))
             \/ RGe(lo, Zero) /\ RLe(dd, RMul(lo, lo))

\* _init_k_matrix with K data read from the sheet (rows of N values)
KFromData(data) ==
    LET c == [i \in 1..Len(data) |-> ClampBelow(ClampAbove(data[i], One, KMAT_MAX))]
        \* np.multiply(np.identity(n), kmat): a single row broadcasts
        full == [i \in 1..N |-> IF Len(c) = 1 THEN c[1] ELSE c[i]]
    IN  Hadamard(Identity(N), full)

\* _init_q0 with q(0) data read from the sheet
Q0FromData(data) == ClampBelow(ClampAbove(data, One, One))

Transpose(M) == Tup([i \in 1..Len(M[1]) |-> Tup([j \in 1..Len(M) |-> M[j][i]])])

\* _read_io_table: the kinds of table it accepts, the last row of an
\* input-output table (total outputs) and the rows before it
KnownKind(c) == c.matrix_type \in {"interdependency", "consequence", "input-output"}
XOutput(c) == c.table[Len(c.table)]
IoTable(c) ==
    IF c.matrix_type = "input-output"
    THEN [i \in 1..(Len(c.table) - 1) |-> c.table[i]]
    ELSE c.table

\* a * C^b of mapping.py for the scores 0..5, to four decimals: the
\* exponents are irrational, b = 2.569323442 gives 0.008 * 5^b = 0.5 and
\* b = 2.821928095 gives 0.01 * 4^b = 0.5
PowerLaw5 ==
    <<Zero, <<1, 125>>, <<19, 400>>, <<673, 5000>>, <<1409, 5000>>, <<1, 2>> >>
PowerLaw4 ==
    <<Zero, <<1, 100>>, <<707, 10000>>, <<111, 500>>, <<1, 2>>, <<1877, 2000>> >>

\* mapping._map_to_interdep on a score <<n, 1>>: every scale but "4-point"
\* takes the 5-point law
_map_to_interdep(consequence, scale) ==
    IF scale = "4-point" THEN PowerLaw4[consequence[1] + 1]
    ELSE PowerLaw5[consequence[1] + 1]

\* np.vectorize(_map_to_interdep)
map_to_interdep(table, scale) ==
    Tup([i \in 1..Len(table) |->
        Tup([j \in 1..Len(table[i]) |-> _map_to_interdep(table[i][j], scale)])])

\* the entry-wise division with the zero-output guard, by the row's output
LeontiefByRow(c) ==
    [i \in 1..N |-> [j \in 1..N |->
        IF c.matrix_type = "input-output" /\ XOutput(c)[i] # Zero
        THEN RDiv(IoTable(c)[i][j], XOutput(c)[i]) ELSE Zero]]

\* _calc_leontief_coefficients: self.amat
_calc_leontief_coefficients(c) ==
    [i \in 1..N |-> [j \in 1..N |->
        IF c.matrix_type = "input-output" /\ XOutput(c)[j] # Zero
        THEN RDiv(IoTable(c)[i][j], XOutput(c)[j]) ELSE Zero]]

\* _calc_interdependency_matrix up to _check_stability: self.astar
InterdependencyMatrix(c) ==
    IF c.matrix_type = "input-output"
    THEN IF c.mode = "supply" THEN Transpose(_calc_leontief_coefficients(c))
         ELSE [i \in 1..N |-> [j \in 1..N |->
                 IF XOutput(c)[j] # Zero
                 THEN RDiv(IoTable(c)[i][j], XOutput(c)[j]) ELSE Zero]]
    ELSE IF c.matrix_type = "consequence"
    THEN map_to_interdep(IoTable(c), c.map_scale)
    ELSE IoTable(c)

\* DIIM.__init__: the steps in order; stage names the step that raised
Build(c) ==
    LET a == IF KnownKind(c) THEN InterdependencyMatrix(c) ELSE <<>>
        unstable == Unstable(a)
        ima == MatSub(Identity(N), a)
        kbad == IF c.kdata.some
                THEN Len(c.kdata.v[1]) # N \/ Len(c.kdata.v) \notin {1, N}
                ELSE c.tau /\ N > 1
        k == IF c.kdata.some THEN KFromData(c.kdata.v) ELSE Identity(N)
        qbad == c.q0data.some /\ Len(c.q0data.v) # N
        q == IF c.q0data.some THEN Q0FromData(c.q0data.v) ELSE Zeros(N)
        pn == PerturbationNew(c.pert)
        none == [ok |-> FALSE, stage |-> "", astar |-> a, smat |-> <<>>,
                 amat |-> IF KnownKind(c) THEN _calc_leontief_coefficients(c)
                          ELSE <<>>,
                 kmat |-> <<>>, q0 |-> <<>>, perturb |-> NewPerturbation]
    IN  IF ~KnownKind(c) THEN [none EXCEPT !.stage = "_read_io_table"]
        ELSE IF unstable THEN [none EXCEPT !.stage = "_check_stability"]
        ELSE IF Singular(ima) THEN [none EXCEPT !.stage = "inv"]
        ELSE LET s == Inverse(ima)
                 built == [none EXCEPT !.smat = s]
             IN  IF kbad THEN [built EXCEPT !.stage = "_init_k_matrix"]
                 ELSE IF qbad THEN [built EXCEPT !.stage = "_init_q0", !.kmat = k]
                 ELSE IF pn.err
                 THEN [built EXCEPT !.stage = "Perturbation", !.kmat = k, !.q0 = q]
                 ELSE [built EXCEPT !.ok = TRUE, !.kmat = k, !.q0 = q,
                                    !.perturb = pn.p]

(***************************************************************************)
(* Simulation (diim.py, inoperability and dynamic_inoperability)           *)
(***************************************************************************)
\* inoperability with a lower clamp at 0 added
inoperability_floor(m, p) ==
    LET r == cstar(p, 0)
    IN  IF r.err THEN [p |-> r.p, q |-> <<>>, err |-> TRUE, trace |-> <<>>]
        ELSE [p |-> r.p, err |-> FALSE, trace |-> <<r.ct>>,
              q |-> ClampBelow(ClampAbove(MatVec(m.smat, r.ct), One, One))]

\* DIIM.inoperability on a model with matrices m and perturbation p
inoperability(m, p) ==
    LET r == cstar(p, 0)
    IN  IF r.err THEN [p |-> r.p, q |-> <<>>, err |-> TRUE, trace |-> <<>>]
        ELSE [p |-> r.p, err |-> FALSE, trace |-> <<r.ct>>,
              q |-> ClampAbove(MatVec(m.smat, r.ct), One, One)]

\* the loop body without the "- qk" term
StepNoDecay(m, qk, ct) ==
    ClampAbove(
        VecAdd(MatVec(m.kmat, VecAdd(MatVec(m.astar, qk), ct)), qk),
        One, One)

\* one pass of the loop body of dynamic_inoperability
Step(m, qk, ct) ==
    ClampAbove(
        VecAdd(MatVec(m.kmat, VecSub(VecAdd(MatVec(m.astar, qk), ct), qk)), qk),
        One, One)

Row(k, qk) == <<R(k, 1)>> \o qk

\* the loop from step k on: qt the rows written so far, trace the vectors
\* cstar returned
RECURSIVE dyn_loop(_, _, _, _, _, _)
dyn_loop(m, p, qk, k, qt, trace) ==
    IF k >= m.time_steps
    THEN [p |-> p, qt |-> qt, err |-> FALSE, trace |-> trace]
    ELSE LET r == cstar(p, k)
         IN  IF r.err THEN [p |-> r.p, qt |-> <<>>, err |-> TRUE, trace |-> trace]
             ELSE LET q1 == Step(m, qk, r.ct)
                  IN  dyn_loop(m, r.p, q1, k + 1,
                               [qt EXCEPT ![k + 1] = Row(k, q1)],
                               Append(trace, r.ct))

\* the loop updating qk in place (qk += ..., the array of self.q0)
dynamic_inoperability_inplace(m, p) ==
    LET nt == IF m.time_steps = 0 THEN 1 ELSE m.time_steps
        qt0 == [i \in 1..nt |-> Zeros(N + 1)]
        r == dyn_loop(m, p, m.q0, 1, qt0, <<>>)
    IN  [p |-> r.p, qt |-> r.qt, err |-> r.err, trace |-> r.trace,
         q0 |-> IF r.err \/ nt = 1 THEN m.q0 ELSE Tail(r.qt[nt])]

\* DIIM.dynamic_inoperability; q0 is the array self.q0 after the call:
\* qk = self.q0 binds that array, but the first pass rebinds qk to a new
\* array before the clamp writes into qk
dynamic_inoperability(m, p) ==
    LET nt == IF m.time_steps = 0 THEN 1 ELSE m.time_steps
        qt0 == [i \in 1..nt |-> Zeros(N + 1)]
        r == dyn_loop(m, p, m.q0, 1, qt0, <<>>)
    IN  [p |-> r.p, qt |-> r.qt, err |-> r.err, trace |-> r.trace, q0 |-> m.q0]

(***************************************************************************)
(* Recovery, impact and the indices (diim.py)                              *)
(***************************************************************************)
MatMul(A, B) ==
    Tup([i \in 1..Len(A) |-> Tup([j \in 1..Len(B[1]) |->
        RSum([k \in 1..Len(B) |-> RMul(A[i][k], B[k][j])])])])
MatAdd(A, B) == Tup([i \in 1..Len(A) |-> VecAdd(A[i], B[i])])
Scale(x, M) ==
    Tup([i \in 1..Len(M) |-> Tup([j \in 1..Len(M[i]) |-> RMul(x, M[i][j])])])

\* np.linalg.matrix_power for n >= 0
RECURSIVE matrix_power(_, _)
matrix_power(M, n) ==
    IF n = 0 THEN Identity(Len(M)) ELSE MatMul(matrix_power(M, n - 1), M)

\* scipy.linalg.expm as the exponential series I + M + M^2/2! + ... cut after
\* the term of degree ExpmDegree.  The sum is the exact exponential where
\* M.M = 0 (the series ends with I + M); elsewhere it is an approximation,
\* and nothing stated below depends on an approximated value.
ExpmDegree == 2
RECURSIVE expm_terms(_, _, _)
expm_terms(M, term, d) ==
    IF d > ExpmDegree THEN Tup([i \in 1..Len(M) |-> Zeros(Len(M))])
    ELSE MatAdd(term, expm_terms(M, Scale(<<1, d + 1>>, MatMul(term, M)), d + 1))
expm(M) == expm_terms(M, Identity(Len(M)), 0)
ExpmExact(M) == MatMul(M, M) = Tup([i \in 1..Len(M) |-> Zeros(Len(M))])

\* kmat @ (identity - astar)
RecoveryRate(m) == MatMul(m.kmat, MatSub(Identity(N), m.astar))

\* the loop of dynamic_recovery from step k on
RECURSIVE rec_loop(_, _, _)
rec_loop(m, k, qt) ==
    IF k >= m.time_steps THEN qt
    ELSE LET qk == ClampBelow(
                     MatVec(expm(Scale(R(-k, 1), RecoveryRate(m))), m.q0))
         IN  rec_loop(m, k + 1, [qt EXCEPT ![k + 1] = Row(k, qk)])

\* dynamic_recovery writing q(0) into row 0
dynamic_recovery_from_q0(m) ==
    LET nt == IF m.time_steps = 0 THEN 1 ELSE m.time_steps
        qt0 == [i \in 1..nt |-> IF i = 1 THEN Row(0, m.q0) ELSE Zeros(N + 1)]
    IN  [qt |-> rec_loop(m, 1, qt0), q0 |-> m.q0]

\* DIIM.dynamic_recovery; q0 is the array self.q0 after the call (matmul
\* makes a new array, which is the one the clamp writes into)
dynamic_recovery(m) ==
    LET nt == IF m.time_steps = 0 THEN 1 ELSE m.time_steps
        qt0 == [i \in 1..nt |-> Zeros(N + 1)]
    IN  [qt |-> rec_loop(m, 1, qt0), q0 |-> m.q0]

\* np.trapezoid(y) with unit spacing: sum of (y[1:] + y[:-1]) / 2
trapezoid(y) ==
    RSum([k \in 1..(Len(y) - 1) |-> RDiv(RAdd(y[k + 1], y[k]), <<2, 1>>)])

Column(qt, j) == Tup([k \in 1..Len(qt) |-> qt[k][j]])

\* impact integrating every column, the time column included
impact_all_columns(qt) ==
    [j \in 1..Len(qt[1]) |-> trapezoid(Column(qt, j))]

\* DIIM.impact: columns 1 .. np.size(qt, 1) - 1 (0-based) of the trajectory
impact(qt) ==
    [j \in 1..(Len(qt[1]) - 1) |-> trapezoid(Column(qt, j + 1))]

\* a returned None
NoneRet == <<>>

\* interdependency_index taking an unknown label for the first sector
interdependency_index_lenient(m, isector, jsector, order) ==
    LET i == IF Index(isector) = 0 THEN 1 ELSE Index(isector)
        j == IF Index(jsector) = 0 THEN 1 ELSE Index(jsector)
    IN  matrix_power(m.astar, order)[i][j]

\* DIIM.interdependency_index: the ValueError of infra.index is caught
interdependency_index(m, isector, jsector, order) ==
    IF Index(isector) = 0 \/ Index(jsector) = 0 THEN NoneRet
    ELSE matrix_power(m.astar, order)[Index(isector)][Index(jsector)]

\* the last position of the largest value
argmax_last(row) ==
    CHOOSE j \in 1..Len(row) :
        /\ \A l \in 1..Len(row) : RLe(row[l], row[j])
        /\ \A l \in (j + 1)..Len(row) : RLt(row[l], row[j])

\* np.argmax: the first position of the largest value
argmax(row) ==
    CHOOSE j \in 1..Len(row) :
        /\ \A l \in 1..Len(row) : RLe(row[l], row[j])
        /\ \A l \in 1..(j - 1) : RLt(row[l], row[j])

\* DIIM.max_nth_order_interdependency for n >= 1
max_nth_order_interdependency(m, n) ==
    LET a == matrix_power(m.astar, n)
    IN  Tup([i \in 1..N |->
                <<infra[i], infra[argmax(a[i])], a[i][argmax(a[i])]>>])

\* the sums over the other sectors of a row or a column, over n - 1
OffDiagonalRow(M) ==
    [i \in 1..N |->
        RDiv(RSum([j \in 1..N |-> IF j # i THEN M[i][j] ELSE Zero]), R(N - 1, 1))]
OffDiagonalColumn(M) ==
    [j \in 1..N |->
        RDiv(RSum([i \in 1..N |-> IF i # j THEN M[i][j] ELSE Zero]), R(N - 1, 1))]

\* DIIM.dependency, influence, overall_dependency, overall_influence
SensitivityKinds == {"dependency", "influence", "overall_dependency", "overall_influence"}
sensitivity(m, kind) ==
    IF m.mode # "demand" THEN NoneRet
    ELSE IF kind = "dependency" THEN OffDiagonalRow(m.astar)
    ELSE IF kind = "influence" THEN OffDiagonalColumn(m.astar)
    ELSE IF kind = "overall_dependency" THEN OffDiagonalRow(m.smat)
    ELSE OffDiagonalColumn(m.smat)

(***************************************************************************)
(* Configurations and call arguments                                       *)
(***************************************************************************)
Half == <<1, 2>>
Quarter == <<1, 4>>

\* A* tables of kind "interdependency"
TableHJ == << <<Zero, <<4, 5>> >>, << <<1, 5>>, Zero>> >>
TableHalf == << <<Zero, Half>>, <<Half, Zero>> >>
TableSkew == << <<Zero, RNeg(Half)>>, <<Half, Zero>> >>
TableChain == << <<Quarter, Half>>, <<Zero, Half>> >>
StableTables == {TableHJ, TableHalf, TableSkew, TableChain}
OtherTables ==
    { << <<Zero, <<6, 5>> >>, << <<6, 5>>, Zero>> >>,
      << << <<-6, 5>>, Zero>>, <<Zero, <<1, 10>> >> >>,
      << <<Zero, <<3, 2>> >>, << <<-3, 2>>, Zero>> >>,
      << <<One, Zero>>, <<Zero, Zero>> >>,
      << <<Half, Half>>, <<Half, Half>> >>,
      << << <<-1, 1>>, Zero>>, <<Zero, <<-3, 1>> >> >>,
      << << <<-1, 2>>, Zero>>, <<Zero, <<-1, 4>> >> >>,
      << << <<5, 2>>, One>>, << <<-1, 1>>, <<5, 2>> >> >> }

W(a, b) == <<a, b>>
PertSection(pinfra, cvalue, ptime) ==
    Some([pinfra |-> pinfra, cvalue |-> cvalue, ptime |-> ptime])

\* config["DIIM"] with the sheets it names, and config["Perturbation"]
CfgOf(kind, mode, scale, table, kdata, tau, q0data, steps, pert) ==
    [matrix_type |-> kind, mode |-> mode, map_scale |-> scale,
     table |-> table, kdata |-> kdata, tau |-> tau, q0data |-> q0data,
     time_steps |-> steps, pert |-> pert]

Cfg(table, kdata, tau, q0data, steps, pert) ==
    CfgOf("interdependency", "demand", "5-point",
          table, kdata, tau, q0data, steps, pert)

\* arguments of set_perturbation
\* sector labels passed to the index queries
Labels == {"Sector1", "Sector2", "Sector9"}
MaxOrder == 3

\* tables of consequence scores 0..5 with the map_scale they are read under;
\* the scores are those the law of that scale maps to an exact value
Score(n) == <<n, 1>>
ScoresTo5 == << <<Score(0), Score(5)>>, <<Score(1), Score(0)>> >>
ScoresTo4 == << <<Score(0), Score(4)>>, <<Score(1), Score(0)>> >>
ScaledTables ==
    { <<ScoresTo5, "5-point">>, <<ScoresTo4, "4-point">>,
      <<ScoresTo5, "3-point">>, <<ScoresTo5, "4 point">> }

\* input-output tables: the rows of transactions, then the row of outputs
IoEven == << <<One, <<2, 1>>>>, <<<<2, 1>>, One>>, <<<<4, 1>>, <<4, 1>>>> >>
IoSkew == << <<One, <<2, 1>>>>, <<Zero, One>>, <<<<4, 1>>, <<8, 1>>>> >>
IoIdle == << <<One, <<3, 1>>>>, <<<<2, 1>>, <<5, 1>>>>, <<<<4, 1>>, Zero>> >>
IoLarge == << <<<<4, 1>>, Zero>>, <<Zero, One>>, <<<<2, 1>>, <<2, 1>>>> >>
IoTables == {IoEven, IoSkew, IoIdle, IoLarge}

\* a row with two equal maxima, and tables whose recovery rate K (I - A*)
\* has a zero square when K = diag(0, 1/2)
TableTie == << <<Quarter, Quarter>>, <<<<1, 8>>, <<1, 8>>>> >>
TableTurn == << <<RNeg(One), <<2, 1>>>>, <<RNeg(One), One>> >>
TableTurnBack == << <<RNeg(One), <<-2, 1>>>>, <<One, One>> >>
KLower == Some(<< <<Zero, Half>> >>)

\* steps of the long simulation
LongRun == 12

PInfraChoices ==
    { <<>>, <<"Sector1">>, <<"Sector2">>, <<"Sector1", "Sector2">>,
      <<"Sector2", "Sector2">>, <<"Sector1", "Sector9">> }
PTimeChoices ==
    { None, Some(<<>>), Some(<<W(1, 1)>>), Some(<<W(0, 1), W(1, 2)>>) }
CValueChoices ==
    { None, Some(<<>>), Some(<<Half>>), Some(<<Half, Quarter>>) }

\* configurations of the perturbation life cycle
Cfgs ==
    { Cfg(TableHJ, None, FALSE, None, MaxSteps, pert) :
        pert \in { None,
                   PertSection(<<"Sector2">>, <<Half>>, None),
                   PertSection(<<"Sector2">>, <<Half>>, Some(<<W(0, 1)>>)) } }

(***************************************************************************)
(* State                                                                   *)
(***************************************************************************)
VARIABLES
    pc,        \* "new" before DIIM(config), then "ready" or "failed"
    cfg,       \* the config the model is constructed from
    amat,      \* self.amat
    astar,     \* self.astar
    smat,      \* self.smat
    kmat,      \* self.__kmat
    q0,        \* self.q0
    perturb,   \* self.perturb
    twin,      \* the perturb of a second model built from the same config
               \* that receives the same set_perturbation calls, no queries
    lastop,    \* the operation that ran last
    larg,      \* its arguments
    ret,       \* the value it returned
    raised,    \* where it raised, "" when it returned
    ctrace,    \* the vectors cstar returned to it, in call order
    setfailed  \* some set_perturbation call on this model has raised

vars == <<pc, cfg, amat, astar, smat, kmat, q0, perturb, twin, lastop, larg,
          ret, raised, ctrace, setfailed>>

NoArg ==
    [time |-> 0, ptime |-> None, cvalue |-> None,
     isector |-> "", jsector |-> "", order |-> 0, kind |-> "", qt |-> <<>>]

\* the matrices the simulation reads
Model ==
    [astar |-> astar, smat |-> smat, kmat |-> kmat, q0 |-> q0,
     time_steps |-> cfg.time_steps, mode |-> cfg.mode]

InitWith(C) ==
    /\ pc = "new"
    /\ cfg \in C
    /\ amat = <<>> /\ astar = <<>> /\ smat = <<>> /\ kmat = <<>> /\ q0 = <<>>
    /\ setfailed = FALSE
    /\ perturb = NewPerturbation
    /\ twin = NewPerturbation
    /\ lastop = "" /\ larg = NoArg /\ ret = <<>> /\ raised = "" /\ ctrace = <<>>

Init == InitWith(Cfgs)

(***************************************************************************)
(* Operations                                                              *)
(***************************************************************************)
\* model = DIIM(config)
Construct ==
    /\ pc = "new"
    /\ LET b == Build(cfg)
       IN  /\ pc' = IF b.ok THEN "ready" ELSE "failed"
           /\ amat' = b.amat
           /\ astar' = b.astar /\ smat' = b.smat /\ kmat' = b.kmat /\ q0' = b.q0
           /\ perturb' = b.perturb /\ twin' = b.perturb
           /\ raised' = b.stage
    /\ lastop' = "__init__" /\ larg' = NoArg /\ ret' = <<>> /\ ctrace' = <<>>
    /\ UNCHANGED <<cfg, setfailed>>

SetPerturbationWith(pinfra, ptime, cvalue) ==
    /\ pc = "ready"
    /\ LET r == set_perturbation(perturb, pinfra, ptime, cvalue)
       IN  /\ perturb' = r.p
           /\ raised' = IF r.err THEN "_init_perturbation" ELSE ""
           /\ setfailed' = (setfailed \/ r.err)
    /\ twin' = set_perturbation(twin, pinfra, ptime, cvalue).p
    /\ lastop' = "set_perturbation"
    /\ larg' = [NoArg EXCEPT !.ptime = ptime, !.cvalue = cvalue]
    /\ ret' = <<>> /\ ctrace' = <<>>
    /\ UNCHANGED <<pc, cfg, amat, astar, smat, kmat, q0>>

\* model.set_perturbation(pinfra, ptime, cvalue)
SetPerturbation ==
    \E pinfra \in PInfraChoices, ptime \in PTimeChoices, cvalue \in CValueChoices :
        SetPerturbationWith(pinfra, ptime, cvalue)

\* model.perturb.cstar(t)
CstarCall ==
    \E t \in 0..MaxTime :
        /\ pc = "ready"
        /\ LET r == cstar(perturb, t)
           IN  /\ perturb' = r.p
               /\ ret' = r.ct
               /\ raised' = IF r.err THEN "cstar" ELSE ""
               /\ ctrace' = IF r.err THEN <<>> ELSE <<r.ct>>
        /\ lastop' = "cstar"
        /\ larg' = [NoArg EXCEPT !.time = t]
        /\ UNCHANGED <<pc, cfg, amat, astar, smat, kmat, q0, twin, setfailed>>

\* model.inoperability()
Inoperability ==
    /\ pc = "ready"
    /\ LET r == inoperability(Model, perturb)
       IN  /\ perturb' = r.p
           /\ ret' = r.q
           /\ raised' = IF r.err THEN "cstar" ELSE ""
           /\ ctrace' = r.trace
    /\ lastop' = "inoperability" /\ larg' = NoArg
    /\ UNCHANGED <<pc, cfg, amat, astar, smat, kmat, q0, twin, setfailed>>

\* model.dynamic_inoperability()
DynamicInoperability ==
    /\ pc = "ready"
    /\ LET r == dynamic_inoperability(Model, perturb)
       IN  /\ perturb' = r.p
           /\ ret' = r.qt
           /\ raised' = IF r.err THEN "cstar" ELSE ""
           /\ ctrace' = r.trace
           /\ q0' = r.q0
    /\ lastop' = "dynamic_inoperability" /\ larg' = NoArg
    /\ UNCHANGED <<pc, cfg, amat, astar, smat, kmat, twin, setfailed>>

\* the set_perturbation call of analyze.single_attack_sampling with its
\* default ptime=None, cvalue=None
SingleAttack ==
    \E item \in {infra[i] : i \in 1..N} :
        SetPerturbationWith(<<item>>, None, None)

\* set_perturbation naming a sector the infrastructure list does not have
UnknownLabels == { <<"Sector9">>, <<"Sector1", "Sector9">> }
SetUnknownSector == \E pinfra \in UnknownLabels : SetPerturbationWith(pinfra, None, None)

\* every operation below leaves the perturbation and its history alone
Analysis(op, arg, result, exc) ==
    /\ pc = "ready"
    /\ lastop' = op /\ larg' = arg /\ ret' = result /\ raised' = exc
    /\ ctrace' = <<>>
    /\ UNCHANGED <<pc, cfg, amat, astar, smat, kmat, perturb, twin, setfailed>>

\* model.dynamic_recovery()
DynamicRecovery ==
    LET r == dynamic_recovery(Model)
    IN  Analysis("dynamic_recovery", NoArg, r.qt, "") /\ q0' = r.q0

\* model.impact(qt) on the trajectory the last call returned
Impact ==
    /\ lastop \in {"dynamic_inoperability", "dynamic_recovery"} /\ raised = ""
    /\ Analysis("impact", [NoArg EXCEPT !.qt = ret], impact(ret), "")
    /\ UNCHANGED q0

\* model.interdependency_index(isector, jsector, order)
InterdependencyIndex ==
    \E isector \in Labels, jsector \in Labels, order \in 1..MaxOrder :
        /\ Analysis("interdependency_index",
                    [NoArg EXCEPT !.isector = isector, !.jsector = jsector,
                                  !.order = order],
                    interdependency_index(Model, isector, jsector, order), "")
        /\ UNCHANGED q0

\* model.max_nth_order_interdependency(n): assert n >= 1
MaxNthOrder ==
    \E n \in 0..MaxOrder :
        /\ Analysis("max_nth_order_interdependency", [NoArg EXCEPT !.order = n],
                    IF n >= 1 THEN max_nth_order_interdependency(Model, n)
                    ELSE NoneRet,
                    IF n >= 1 THEN "" ELSE "assert")
        /\ UNCHANGED q0

\* model.dependency(), influence(), overall_dependency(), overall_influence()
SensitivityIndex ==
    \E kind \in SensitivityKinds :
        /\ Analysis(kind, [NoArg EXCEPT !.kind = kind], sensitivity(Model, kind), "")
        /\ UNCHANGED q0

Next ==
    \/ Construct
    \/ SetPerturbation
    \/ CstarCall
    \/ Inoperability
    \/ DynamicInoperability

Spec == Init /\ [][Next]_vars

(***************************************************************************)
(* Perturbation source: claims C1 to C5, checked under Spec                *)
(***************************************************************************)
Times == 0..MaxTime

InWindow(t, w) == t >= w[1] /\ t <= w[2]

\* the sector-index, window and magnitude lists describe the same entries
WellFormed(p) ==
    /\ p.hasc0 /\ p.hasptime
    /\ Len(p.pindex) = Len(p.ptime)
    /\ Len(p.cvalue) = Len(p.ptime)

Entries(p) == 1..Len(p.ptime)

\* C1: for an entry (i, [t_start, t_end], m) that is the only one targeting
\* sector i, after any sequence of earlier calls cstar(t)[i] is m for every t
\* inside the window and 0 for every t outside it.
C1_WindowExact ==
    (pc = "ready" /\ WellFormed(perturb)) =>
        \A e \in Entries(perturb), t \in Times :
            (\A o \in Entries(perturb) \ {e} : perturb.pindex[o] # perturb.pindex[e])
            => cstar(perturb, t).ct[perturb.pindex[e]]
                 = IF InWindow(t, perturb.ptime[e]) THEN perturb.cvalue[e] ELSE Zero

\* C2: two copies of the model with the same perturbation configuration give
\* equal results for cstar(t), inoperability() and dynamic_inoperability()
\* whatever queries ran on one of them before, and the queries leave the
\* Perturbation state (c0, windows, magnitudes, indices) as it was.
C2_QueriesPure ==
    pc = "ready" =>
        /\ \A t \in Times : cstar(perturb, t).ct = cstar(twin, t).ct
        /\ inoperability(Model, perturb).q = inoperability(Model, twin).q
        /\ dynamic_inoperability(Model, perturb).qt
             = dynamic_inoperability(Model, twin).qt
        /\ perturb = twin

\* C3: when two entries target the same sector index and both windows
\* contain t, cstar(t) returns at that index the magnitude of the entry that
\* is later in configuration order (no later covering entry following it).
C3_LaterEntryWins ==
    (lastop = "cstar" /\ raised = "") =>
        \A i \in Entries(perturb), j \in Entries(perturb) :
            ( /\ i < j
              /\ j <= Len(perturb.pindex) /\ j <= Len(perturb.cvalue)
              /\ perturb.pindex[i] = perturb.pindex[j]
              /\ InWindow(larg.time, perturb.ptime[i])
              /\ InWindow(larg.time, perturb.ptime[j])
              /\ \A k \in Entries(perturb) :
                    (k > j /\ InWindow(larg.time, perturb.ptime[k]))
                    => perturb.pindex[k] # perturb.pindex[j] )
            => ret[perturb.pindex[j]] = perturb.cvalue[j]

C3_Witness ==
    /\ lastop = "cstar" /\ raised = ""
    /\ \E i \in Entries(perturb), j \in Entries(perturb) :
          /\ i < j
          /\ j <= Len(perturb.pindex) /\ j <= Len(perturb.cvalue)
          /\ perturb.pindex[i] = perturb.pindex[j]
          /\ InWindow(larg.time, perturb.ptime[i])
          /\ InWindow(larg.time, perturb.ptime[j])
          /\ perturb.cvalue[i] # perturb.cvalue[j]
          /\ ret[perturb.pindex[j]] = perturb.cvalue[j]
          /\ ret[perturb.pindex[j]] # RAdd(perturb.cvalue[i], perturb.cvalue[j])

\* C4: after set_perturbation(pinfra) with the windows argument omitted, in
\* any prior state, the window list has one window per sector of pinfra and
\* each is [0, 0].
C4_OmittedWindowsDefault ==
    (lastop = "set_perturbation" /\ raised = "" /\ ~larg.ptime.some) =>
        /\ perturb.hasptime
        /\ perturb.ptime = [i \in 1..Len(perturb.pinfra) |-> <<0, 0>>]

\* C5: after a successful set_perturbation(pinfra, ptime, cvalue), cstar(t)
\* is zero at every index that is not the index of a label of pinfra, for
\* every t, whatever was configured before.
C5_NoResidue ==
    (lastop = "set_perturbation" /\ raised = ""
        /\ larg.ptime.some /\ larg.cvalue.some) =>
        \A t \in Times, idx \in 1..N :
            (\A l \in 1..Len(perturb.pinfra) : Index(perturb.pinfra[l]) # idx)
            => \/ cstar(perturb, t).err
               \/ cstar(perturb, t).ct[idx] = Zero

(***************************************************************************)
(* Construction and simulation: claims C6 to C10, checked under SpecSim   *)
(***************************************************************************)
KDataChoices ==
    { Some(<< <<Half, Quarter>> >>),
      Some(<< <<Half, Quarter>>, <<Quarter, Half>> >>),
      Some(<< <<<<3, 2>>, <<-1, 5>>>> >>),
      Some(<< <<One, Half>> >>),
      Some(<< <<Half, Half, Half>> >>) }

Q0Choices ==
    { None, Some(<<Half, Zero>>), Some(<< <<3, 2>>, <<-1, 2>> >>), Some(<<Half>>) }

SimPerts ==
    { None,
      PertSection(<<"Sector2">>, <<Half>>, None),
      PertSection(<<"Sector2">>, <<One>>, Some(<<W(0, 1)>>)),
      PertSection(<<"Sector1", "Sector2">>, <<Half, RNeg(Half)>>,
                  Some(<<W(1, 2), W(0, MaxSteps)>>)) }

SimCfgs ==
    \* stable and unstable tables
    { Cfg(t, None, FALSE, None, 2, PertSection(<<"Sector2">>, <<Half>>, None)) :
        t \in StableTables \union OtherTables }
    \union
    \* K data and tau values
    { Cfg(TableHalf, k, tau, None, 2,
          PertSection(<<"Sector2">>, <<Half>>, Some(<<W(0, 1)>>))) :
        k \in KDataChoices \union {None}, tau \in BOOLEAN }
    \union
    \* simulations
    { Cfg(t, k, FALSE, q, n, pert) :
        t \in {TableHJ, TableSkew, TableChain},
        k \in {None, Some(<< <<Half, Quarter>> >>)},
        q \in Q0Choices, n \in 0..MaxSteps, pert \in SimPerts }

InitSim == InitWith(SimCfgs)

NextSim ==
    \/ Construct
    \/ SingleAttack
    \/ CstarCall
    \/ Inoperability
    \/ DynamicInoperability

SpecSim == InitSim /\ [][NextSim]_vars

\* both eigenvalues of a 2 x 2 matrix lie strictly inside the unit circle
\* (Jury's criterion on the characteristic polynomial)
SpectralRadiusBelowOne(M) ==
    LET tr == RAdd(M[1][1], M[2][2])
        dt == Det(M)
    IN  /\ RLt(RAbs(dt), One)
        /\ RLt(RAbs(tr), RAdd(One, dt))

\* C6: construction succeeds and S is computed only if the spectral radius
\* of A* (maximum of |eigenvalue|, negative and complex ones included) is
\* below 1.
C6_StableOrFails ==
    (pc = "ready" \/ smat # <<>>) => SpectralRadiusBelowOne(astar)

RMin(x, y) == IF RLt(y, x) THEN y ELSE x

\* C7: inoperability() returns S * cstar(0) with entries above 1 replaced by
\* 1 and no lower clamp; when no entry is clamped (I - A*) q is the forcing
\* vector at t = 0, and an all-zero forcing vector gives the all-zero vector.
C7_StaticInoperability ==
    (lastop = "inoperability" /\ raised = "") =>
        LET c == ctrace[1]
            sc(i) == RSum([j \in 1..N |-> RMul(smat[i][j], c[j])])
            back(i) == RSub(ret[i], RSum([j \in 1..N |-> RMul(astar[i][j], ret[j])]))
        IN  /\ Len(ret) = N
            /\ \A i \in 1..N : ret[i] = RMin(One, sc(i))
            /\ (\A i \in 1..N : RLe(sc(i), One)) => \A i \in 1..N : back(i) = c[i]
            /\ (\A i \in 1..N : c[i] = Zero) => \A i \in 1..N : ret[i] = Zero

\* inoperability() returned a vector with one entry clamped to 1 and a
\* vector with a negative entry
C7_Witness ==
    /\ lastop = "inoperability" /\ raised = ""
    /\ \E i \in 1..N : RGt(RSum([j \in 1..N |-> RMul(smat[i][j], ctrace[1][j])]), One)
                       /\ ret[i] = One

C7_WitnessNegative ==
    /\ lastop = "inoperability" /\ raised = ""
    /\ \E i \in 1..N : RLt(ret[i], Zero)

\* C8: row 0 of the trajectory of dynamic_inoperability() has time 0 and the
\* vector q(0); with time_steps <= 1 the result is that single row.
C8_RowZeroIsQ0 ==
    (lastop = "dynamic_inoperability" /\ raised = "") =>
        /\ ret[1] = <<Zero>> \o q0
        /\ cfg.time_steps <= 1 => Len(ret) = 1

\* C9: row k (1 <= k < time_steps) has time k and the vector
\* min(1, K (A* q[k-1] + c(k) - q[k-1]) + q[k-1]) with c(k) the vector the
\* Perturbation returned for time k and q[0] = q(0); the trajectory has
\* time_steps rows (1 if time_steps is 0) and no inoperability exceeds 1.
C9_Recurrence ==
    (lastop = "dynamic_inoperability" /\ raised = "") =>
        LET prev(k) == IF k = 1 THEN q0 ELSE Tail(ret[k])
            inner(k, j) ==
                RSub(RAdd(RSum([l \in 1..N |-> RMul(astar[j][l], prev(k)[l])]),
                          ctrace[k][j]),
                     prev(k)[j])
            next(k, i) ==
                RAdd(RSum([j \in 1..N |-> RMul(kmat[i][j], inner(k, j))]),
                     prev(k)[i])
        IN  /\ Len(ret) = IF cfg.time_steps = 0 THEN 1 ELSE cfg.time_steps
            /\ \A k \in 1..(cfg.time_steps - 1) :
                  /\ ret[k + 1][1] = <<k, 1>>
                  /\ \A i \in 1..N : ret[k + 1][i + 1] = RMin(One, next(k, i))
            /\ \A k \in 1..Len(ret) : \A i \in 1..N : RLe(ret[k][i + 1], One)

\* a trajectory of at least three rows from a non-zero q(0), with a
\* non-zero forcing vector and an entry clamped to 1
C9_Witness ==
    /\ lastop = "dynamic_inoperability" /\ raised = ""
    /\ Len(ret) >= 3
    /\ q0 # Zeros(N)
    /\ \E k \in 1..Len(ctrace) : ctrace[k] # Zeros(N)
    /\ \E k \in 2..Len(ret) : \E i \in 1..N : ret[k][i + 1] = One

\* C10: every entry of a K matrix built from supplied data lies in
\* [0, 0.9999] and K is N x N diagonal: a supplied v is stored as 0.9999 if
\* v exceeds 0.9999, as 0 if v < 0 and as v otherwise.
C10_KClamped ==
    (pc = "ready" /\ cfg.kdata.some) =>
        LET v(i) == IF Len(cfg.kdata.v) = 1 THEN cfg.kdata.v[1][i]
                    ELSE cfg.kdata.v[i][i]
        IN  /\ Len(kmat) = N
            /\ \A i \in 1..N, j \in 1..N :
                  /\ RLe(Zero, kmat[i][j]) /\ RLe(kmat[i][j], KMAT_MAX)
                  /\ i # j => kmat[i][j] = Zero
            /\ \A i \in 1..N :
                  kmat[i][i] = IF RGt(v(i), KMAT_MAX) THEN KMAT_MAX
                               ELSE IF RLt(v(i), Zero) THEN Zero ELSE v(i)


(***************************************************************************)
(* Table kinds, recovery, impact and the indices                           *)
(***************************************************************************)
AnPert == PertSection(<<"Sector2">>, <<Half>>, None)

AnCfgs ==
    \* consequence scores under known and unknown scales
    { CfgOf("consequence", "demand", ts[2], ts[1], None, FALSE, None, 2, AnPert) :
        ts \in ScaledTables }
    \union
    \* a kind _read_io_table does not know
    { CfgOf("leontief", "demand", "5-point", TableHJ, None, FALSE, None, 2, AnPert) }
    \union
    { CfgOf("input-output", md, "5-point", t, None, FALSE, None, 2, AnPert) :
        t \in IoTables, md \in {"demand", "supply"} }
    \union
    { CfgOf("interdependency", md, "5-point", t, None, FALSE, None, 2, AnPert) :
        t \in {TableSkew, TableTie, TableChain}, md \in {"demand", "supply"} }
    \union
    \* Perturbation sections naming known and unknown sectors
    { Cfg(TableHJ, None, FALSE, None, 2, pert) :
        pert \in { None,
                   PertSection(<<"Sector9">>, <<Half>>, None),
                   PertSection(<<"Sector1", "Sector9">>, <<Half, Half>>, None) } }

InitAn == InitWith(AnCfgs)

NextAn ==
    \/ Construct
    \/ SetUnknownSector
    \/ InterdependencyIndex
    \/ MaxNthOrder

SpecAn == InitAn /\ [][NextAn]_vars

DynCfgs ==
    \* recoveries whose exponential is exact
    { Cfg(t, KLower, FALSE, q, n, AnPert) :
        t \in {TableTurn, TableTurnBack}, q \in {None, Some(<<One, Quarter>>)},
        n \in {0, 1, MaxSteps} }
    \union
    { Cfg(TableHJ, Some(<< <<Half, Quarter>> >>), FALSE, Some(<<Half, Zero>>),
          MaxSteps, pert) :
        pert \in { None, AnPert,
                   PertSection(<<"Sector1", "Sector2">>, <<Quarter, Half>>,
                               Some(<<W(1, 1), W(0, MaxSteps)>>)) } }
    \union
    { CfgOf("interdependency", "supply", "5-point", TableChain, None, FALSE,
            Some(<<Half, Zero>>), 2, AnPert) }
    \union
    \* a constant perturbation over a long simulation
    { Cfg(TableHalf, None, FALSE, None, LongRun,
          PertSection(<<"Sector2">>, <<Half>>, Some(<<W(0, LongRun)>>))) }

InitDyn == InitWith(DynCfgs)

NextDyn ==
    \/ Construct
    \/ SingleAttack
    \/ CstarCall
    \/ Inoperability
    \/ DynamicInoperability
    \/ DynamicRecovery
    \/ Impact
    \/ SensitivityIndex

SpecDyn == InitDyn /\ [][NextDyn]_vars

\* C11: a model of kind consequence whose map_scale is neither "5-point" nor
\* "4-point" is never constructed: construction fails and produces no model.
C11_ScaleChecked ==
    (cfg.matrix_type = "consequence" /\ cfg.map_scale \notin {"5-point", "4-point"})
        => pc # "ready"

HasUnknown(labels) == \E i \in 1..Len(labels) : Index(labels[i]) = 0

\* C12 as stated: every operation given a label absent from the infrastructure
\* list fails: construction with such a label in the Perturbation section,
\* set_perturbation with such a label in pinfra, and interdependency_index
\* with such an isector or jsector.
C12_UnknownLabelFails ==
    /\ (cfg.pert.some /\ HasUnknown(cfg.pert.v.pinfra)) => pc # "ready"
    /\ (lastop = "set_perturbation" /\ HasUnknown(perturb.pinfra))
           => raised = "_init_perturbation"
    /\ (lastop = "interdependency_index"
            /\ HasUnknown(<<larg.isector, larg.jsector>>))
           => raised # ""

\* C12 amended: construction and set_perturbation given a label absent from
\* the infrastructure list fail, and interdependency_index given such an
\* isector or jsector returns None without raising.
C12_UnknownLabel ==
    /\ (cfg.pert.some /\ HasUnknown(cfg.pert.v.pinfra)) => pc # "ready"
    /\ (lastop = "set_perturbation" /\ HasUnknown(perturb.pinfra))
           => raised = "_init_perturbation"
    /\ (lastop = "interdependency_index"
            /\ HasUnknown(<<larg.isector, larg.jsector>>))
           => (raised = "" /\ ret = NoneRet)

C12_Witness ==
    /\ lastop = "interdependency_index" /\ larg.isector = "Sector1"
    /\ larg.jsector = "Sector9" /\ larg.order = 1 /\ ret = NoneRet
    /\ setfailed /\ HasUnknown(perturb.pinfra)

C12_WitnessConstruction ==
    cfg.pert.some /\ HasUnknown(cfg.pert.v.pinfra) /\ raised = "Perturbation"

\* C13: the trajectory of dynamic_recovery has time_steps rows (1 when that is
\* 0), row 0 all zero whatever q(0) is, k in the time column of row k, and in
\* row k >= 1 each entry of expm(-K (I - A*) k) q(0), replaced by 0 when it is
\* negative and left as it is when it exceeds 1.
C13_RecoveryTrajectory ==
    lastop = "dynamic_recovery" =>
        /\ Len(ret) = IF cfg.time_steps = 0 THEN 1 ELSE cfg.time_steps
        /\ ret[1] = Zeros(N + 1)
        /\ \A k \in 1..Len(ret) :
              /\ Len(ret[k]) = N + 1
              /\ ret[k][1] = R(k - 1, 1)
              /\ \A j \in 1..N : RGe(ret[k][j + 1], Zero)
        /\ \A k \in 2..Len(ret) :
              LET raw == MatVec(expm(Scale(R(1 - k, 1), RecoveryRate(Model))), q0)
              IN  \A j \in 1..N :
                      ret[k][j + 1] = IF RLt(raw[j], Zero) THEN Zero ELSE raw[j]

C13_Witness ==
    /\ lastop = "dynamic_recovery" /\ q0 # Zeros(N) /\ Len(ret) >= 3
    /\ ExpmExact(RecoveryRate(Model))
    /\ \E j \in 1..N : RGt(ret[3][j + 1], One)

C13_WitnessClamped ==
    /\ lastop = "dynamic_recovery" /\ ExpmExact(RecoveryRate(Model))
    /\ Len(ret) >= 2
    /\ \E j \in 1..N :
          /\ ret[2][j + 1] = Zero
          /\ RLt(MatVec(expm(Scale(R(-1, 1), RecoveryRate(Model))), q0)[j], Zero)

\* twice the unit-spaced trapezoidal sum of y: the two ends once, the rest twice
TwiceTrapezoid(y) ==
    IF Len(y) < 2 THEN Zero
    ELSE RAdd(RAdd(y[1], y[Len(y)]),
              RMul(<<2, 1>>, RSum([k \in 1..(Len(y) - 2) |-> y[k + 1]])))

\* C14: impact(qt) has one value per sector, the time column left out, each
\* the unit-spaced trapezoidal sum of that sector's column; it is exactly 0
\* for every sector when qt has a single row or is zero at every step.
C14_ImpactTrapezoid ==
    lastop = "impact" =>
        /\ Len(ret) = N
        /\ \A j \in 1..N :
              RMul(<<2, 1>>, ret[j]) = TwiceTrapezoid(Column(larg.qt, j + 1))
        /\ (\/ Len(larg.qt) = 1
            \/ \A k \in 1..Len(larg.qt) : Tail(larg.qt[k]) = Zeros(N))
               => ret = Zeros(N)

C14_Witness ==
    /\ lastop = "impact" /\ Len(larg.qt) >= 3
    /\ \E j \in 1..N : ret[j] # Zero /\ larg.qt[2][j + 1] # larg.qt[3][j + 1]

C14_WitnessZero ==
    /\ lastop = "impact" /\ Len(larg.qt) >= 3 /\ ret = Zeros(N)

\* C15: on a constructed model A, A*, S, K and q(0) equal what construction
\* produced, whatever calls of set_perturbation, cstar, inoperability,
\* dynamic_inoperability, dynamic_recovery, impact and the sensitivity
\* indices were made since.
C15_Frame ==
    pc = "ready" =>
        LET b == Build(cfg)
        IN  /\ amat = b.amat /\ astar = b.astar /\ smat = b.smat
            /\ kmat = b.kmat /\ q0 = b.q0

C15_Witness ==
    /\ pc = "ready" /\ lastop = "dynamic_inoperability" /\ raised = ""
    /\ Len(ret) >= 3 /\ q0 # Zeros(N) /\ Tail(ret[Len(ret)]) # q0
    /\ perturb.pinfra # cfg.pert.v.pinfra

C16_WitnessVerbatim ==
    /\ pc = "ready" /\ cfg.matrix_type = "interdependency" /\ cfg.mode = "supply"

\* entry [i, j] of the n-th power as the sum over the first step of a path
RECURSIVE PathSum(_, _, _, _)
PathSum(M, i, j, n) ==
    IF n = 1 THEN M[i][j]
    ELSE RSum([l \in 1..Len(M) |-> RMul(M[i][l], PathSum(M, l, j, n - 1))])

\* C17: for n >= 1 interdependency_index(i, j, n) is entry [i, j] of the n-th
\* power of A*, and max_nth_order_interdependency(n) is one triple per row i,
\* in row order: row i's label, the label of the smallest column at which
\* row i of that power is largest, and that largest value.
C17_Indices ==
    /\ (lastop = "interdependency_index" /\ larg.order >= 1
            /\ ~HasUnknown(<<larg.isector, larg.jsector>>))
           => ret = PathSum(astar, Index(larg.isector), Index(larg.jsector),
                            larg.order)
    /\ (lastop = "max_nth_order_interdependency" /\ larg.order >= 1) =>
           /\ Len(ret) = N
           /\ \A i \in 1..N :
                 LET j == Index(ret[i][2])
                 IN  /\ ret[i][1] = infra[i]
                     /\ j \in 1..N
                     /\ ret[i][3] = PathSum(astar, i, j, larg.order)
                     /\ \A l \in 1..N :
                           RLe(PathSum(astar, i, l, larg.order), ret[i][3])
                     /\ \A l \in 1..(j - 1) :
                           RLt(PathSum(astar, i, l, larg.order), ret[i][3])

C17_Witness ==
    /\ lastop = "max_nth_order_interdependency" /\ larg.order >= 2
    /\ \E i \in 1..N :
          /\ ret[i][2] = infra[1]
          /\ PathSum(astar, i, 2, larg.order) = ret[i][3]

C17_WitnessIndex ==
    /\ lastop = "interdependency_index" /\ larg.order >= 2
    /\ larg.isector = "Sector1" /\ larg.jsector = "Sector2"
    /\ ret # NoneRet /\ ret # PathSum(astar, 2, 1, larg.order)

\* atol of the comparison of the last row with inoperability()
Tolerance == <<1, 1000>>

C18_WitnessFixedPoint ==
    /\ pc = "ready" /\ kmat # Identity(N) /\ astar[1][2] # astar[2][1]
    /\ ~cstar(perturb, 0).err
    /\ cstar(perturb, 0).ct # Zeros(N)
    /\ \A i \in 1..N : RLe(MatVec(smat, cstar(perturb, 0).ct)[i], One)

\* C19: on a constructed model on which no set_perturbation call has failed
\* the sector-index, window and magnitude lists have equal length, and cstar,
\* inoperability and dynamic_inoperability do not raise.
C19_NeverRaises ==
    (pc = "ready" /\ ~setfailed) =>
        /\ WellFormed(perturb)
        /\ lastop \in {"cstar", "inoperability", "dynamic_inoperability"}
               => raised = ""

\* C20: a set_perturbation call that fails on a label absent from the
\* infrastructure list leaves pinfra, the sector indices, the windows, the
\* magnitudes and c0 as they were before the call.
C20_FailedSetKeepsState ==
    [][(lastop' = "set_perturbation" /\ raised' = "_init_perturbation")
           => perturb' = perturb]_vars

====
